---------------------------- MODULE Spec2Model ----------------------------
(***************************************************************************)
(* A model of terminal.py: the ANSI escape parser (AnsiEscapeParser), the  *)
(* concurrent input reader (InputWrapper), the cell grid (CellType,        *)
(* Window), the diff renderer (Terminal.refresh, move_cursor) and the      *)
(* scoped lifecycle of Terminal (__enter__, __exit__).                     *)
(*                                                                         *)
(* Characters are their code points (ord).  A Python string is the         *)
(* sequence of its characters; None, where a character is expected, is the  *)
(* empty sequence.                                                         *)
(***************************************************************************)
EXTENDS Integers, Sequences, FiniteSets, TLC

(***************************************************************************)
(* Module-level constants of terminal.py.                                  *)
(***************************************************************************)
ESC == 27
\* CSI = ESC + '[' : the character that follows ESC in a CSI.
CSI == 91
CPR == 82
DSR == 110
CURSOR_UP == 65
CURSOR_DOWN == 66
CURSOR_RIGHT == 67
CURSOR_LEFT == 68
CURSOR_POS == 72
SGR == 109
BOLD == 1
FAINT == 2
ITALIC == 3
UNDERLINE == 4
BLINK_SLOW == 5
BLINK_FAST == 6
REVERSE_VIDEO == 7
CONCEAL == 8
STRIKE_OUT == 9
FRAKTUR == 20
FG_OFFSET == 30
BG_OFFSET == 40
ATTR_FORMAT ==
    <<BOLD, FAINT, ITALIC, UNDERLINE, BLINK_SLOW, BLINK_FAST, REVERSE_VIDEO,
      CONCEAL, STRIKE_OUT, FRAKTUR, FG_OFFSET, BG_OFFSET>>
BOLD_FAINT_OFF == 22
ITALIC_FRAKTUR_OFF == 23
UNDERLINE_OFF == 24
BLINK_OFF == 25
REVERSE_VIDEO_OFF == 27
CONCEAL_OFF == 28
STRIKE_OUT_OFF == 29
DEFAULT_FG == 39
DEFAULT_BG == 49

(***************************************************************************)
(* Bounds of the model.                                                    *)
(***************************************************************************)
\* Items (plain characters, escape sequences) the parser's feeder sends.
MaxItems == 3
\* Items the user types into the input reader's stream.
MaxTyped == 2
\* Calls of get_cursor the foreground thread makes.
MaxQueries == 1
\* Calls of read(n) the foreground thread makes.
MaxReads == 3
\* Calls other than refresh (cell writes, fills, swaps, move_cursor) the
\* drawing program makes.
MaxOps == 2
\* Calls the program makes inside one with block.
MaxBody == 3
\* Calls of start() the program makes after construction.
MaxStarts == 1

VARIABLES
    gen,        \* AnsiEscapeParser generator: where it is suspended, params, code
    infile,     \* characters written to the input stream and not yet read
    sent,       \* history: the items written to the input stream, in order
    yielded,    \* history: the characters gen.send returned, in order
    calls,      \* history: the (params, code) pairs the callback was called with
    raised,     \* the exception that ended the parser's consumer, <<>> if none
    \* InputWrapper and the two threads
    running,    \* self.running
    buf,        \* self.buf
    bgpc,       \* where the background thread is in InputWrapper.loop
    bgchar,     \* loop's local char, between gen.send and the append to buf
    fgpc,       \* where the foreground thread is in the call it is making
    fgcall,     \* the call the foreground thread is making, with its locals
    got,        \* history: the characters getchar has returned, in order
    reads,      \* history: each read(n): n, buf before, the result, buf after
    \* the cursor-position query
    cursor_pos, \* self.cursor_pos: <<row, col>>, or <<>> for None
    dsrs,       \* DSR requests written to the terminal and not yet answered
    termcursor, \* where the terminal's cursor is (what it reports)
    reports,    \* history: the (row, col) of each CPR the terminal has written
    ncpr,       \* history: how many times cpr_callback has run
    cursorret,  \* history: what get_cursor(wait=True) last returned, and ncpr then
    \* Terminal: the two windows and what is written to the terminal
    rows,       \* self.rows
    cols,       \* self.cols
    stdscr,     \* self.stdscr.buf: the pending cells, row-major
    curscr,     \* self.curscr.buf: the shown cells, row-major
    outfile,    \* what the last call wrote to self.outfile, in order
    pass,       \* history: when the last call was refresh, the cells that differed
                \* when it started and cursor_pos then
    consec,     \* history: how many of the last calls were refresh (2: two or more)
    nops,       \* history: how many calls other than refresh were made
    \* Terminal as a context manager, and what it saves and restores
    termmode,   \* the mode of the terminal (termios attributes): the set of the
                \* cooked mode's features that are turned off
    sighandler, \* the disposition of SIGWINCH
    mode,       \* self.mode, <<>> before the first __enter__
    sigwinch,   \* self.sigwinch, <<>> before the first __enter__
    scope,      \* "out", "in" (inside the with block), "raising" (an exception
                \* is leaving the block), "exit_stop", "exit_mode", "exit_signal"
                \* (the line __exit__ is to run next), "exited" (__exit__ has
                \* just returned or raised)
    entered,    \* history: the mode and the disposition __enter__ last saw, whether
                \* the block changed the mode, how the block was left, and whether
                \* SIGWINCH interrupted __exit__
    \* the terminal at the other end of outfile, threads, and histories
    term,       \* the terminal: where its cursor is and its graphic rendition
    others,     \* the threads running InputWrapper.loop besides the one whose
                \* position is bgpc: for each its position and its local char
    lastcall,   \* history: the last call the drawing program made, its
                \* arguments and the exception it raised
    writes      \* history: each shared attribute written so far, with the locks
                \* the writing thread held

parserVars == <<gen, infile, sent, yielded, calls, raised>>
inputVars == <<running, buf, bgpc, bgchar, fgpc, fgcall, got, reads>>
queryVars == <<cursor_pos, dsrs, termcursor, reports, ncpr, cursorret>>
renderVars == <<rows, cols, stdscr, curscr, outfile, pass, consec, nops>>
lifeVars == <<termmode, sighandler, mode, sigwinch, scope, entered>>
auxVars == <<term, others, lastcall, writes>>
vars == <<parserVars, inputVars, queryVars, renderVars, lifeVars, auxVars>>

(***************************************************************************)
(* AnsiEscapeParser (a generator).  Its suspension points:                 *)
(*   "Normal"         line 163, 177 or 183: the next character starts anew *)
(*   "SawEsc"         line 166: ESC was consumed                           *)
(*   "InParams"       line 169 or 172: inside the parameter bytes          *)
(*   "InIntermediate" line 175: inside the intermediate bytes              *)
(*   "Closed"         the generator raised: it is finished                 *)
(***************************************************************************)
NewParser == [st |-> "Normal", params |-> <<>>, code |-> <<>>]

\* The mutation of IsParamByte that takes digits only (no ';', no private bytes).
IsParamByteDigitsOnly(ch) == 48 <= ch /\ ch < 58

\* while 48 <= ord(ch) < 64
IsParamByte(ch) == 48 <= ch /\ ch < 64

\* while 32 <= ord(ch) < 48
IsIntermediateByte(ch) == 32 <= ch /\ ch < 48

\* The mutation of IsCSI that takes every character after ESC as a CSI.
IsCSIAnything(ch) == ch = ch

\* if ESC + ch == CSI
IsCSI(ch) == ch = CSI

\* mesg = 'ESC %02d/%02d' % (ch >> 4, ch & 0xf); raise NotImplementedError, mesg
UnsupportedEscape(ch) == <<"NotImplementedError", ch \div 16, ch % 16>>

(***************************************************************************)
(* gen.send(ch): the generator g resumed with ch, run to its next yield.   *)
(* out is the value send returns (<<>> for None), cb the arguments of the  *)
(* callback when this step called it (<<>> when it did not), exc what the  *)
(* generator raised (<<>> when nothing).                                   *)
(***************************************************************************)
Step(g, out, cb, exc) == [gen |-> g, out |-> out, cb |-> cb, exc |-> exc]

\* The two while loops and the callback of lines 170-177, for the character ch
\* with which the generator resumes inside a CSI.
SendInCSI(g, ch) ==
    IF g.st = "InParams" /\ IsParamByte(ch)
    THEN Step([g EXCEPT !.params = Append(g.params, ch)], <<>>, <<>>, <<>>)
    ELSE IF IsIntermediateByte(ch)
    THEN Step([g EXCEPT !.st = "InIntermediate", !.code = Append(g.code, ch)],
              <<>>, <<>>, <<>>)
    ELSE Step(NewParser, <<>>, <<g.params, Append(g.code, ch)>>, <<>>)

Send(g, ch) ==
    CASE g.st = "Normal" ->
           IF ch = ESC
           THEN Step([g EXCEPT !.st = "SawEsc"], <<>>, <<>>, <<>>)
           ELSE Step(g, <<ch>>, <<>>, <<>>)
      [] g.st = "SawEsc" ->
           IF IsCSI(ch)
           THEN Step([st |-> "InParams", params |-> <<>>, code |-> <<>>],
                     <<>>, <<>>, <<>>)
           ELSE Step([g EXCEPT !.st = "Closed"], <<>>, <<>>, UnsupportedEscape(ch))
      [] g.st \in {"InParams", "InIntermediate"} -> SendInCSI(g, ch)
      [] OTHER -> Step(g, <<>>, <<>>, <<"StopIteration">>)

(***************************************************************************)
(* The input streams of the parser's check: items, each a plain character, *)
(* a well-formed CSI sequence or ESC followed by a character other than    *)
(* '['.                                                                    *)
(***************************************************************************)
PlainChars == {65, 49, 91}
ParamStrings == {<<>>, <<54>>, <<54, 59, 49>>}
IntermediateStrings == {<<>>, <<32>>}
FinalBytes == {CPR, 91}
BadFollowers == {65, ESC}

PlainItem(c) == [kind |-> "plain", ch |-> c, params |-> <<>>, inter |-> <<>>]
CsiItem(p, i, f) == [kind |-> "csi", ch |-> f, params |-> p, inter |-> i]
BadItem(c) == [kind |-> "bad", ch |-> c, params |-> <<>>, inter |-> <<>>]

ParserItems ==
    {PlainItem(c) : c \in PlainChars}
    \cup {CsiItem(p, i, f) : p \in ParamStrings, i \in IntermediateStrings,
                             f \in FinalBytes}
    \cup {BadItem(c) : c \in BadFollowers}

\* The characters of an item, as they appear on the stream.
ItemChars(it) ==
    CASE it.kind = "plain" -> <<it.ch>>
      [] it.kind = "csi" -> <<ESC, CSI>> \o it.params \o it.inter \o <<it.ch>>
      [] OTHER -> <<ESC, it.ch>>

(***************************************************************************)
(* CellType and Window.  A cell is [ch, fg, bg, attr], attr the bit mask   *)
(* whose bit i is the attribute ATTR_FORMAT[i] (0-based).  A window's buf  *)
(* is the sequence of its cells, row-major: cell (r, c) is buf[r*cols+c+1].*)
(***************************************************************************)
CellType(ch, fg, bg, attr) == [ch |-> ch, fg |-> fg, bg |-> bg, attr |-> attr]

\* ATTR_FORMAT.index(attr)
attr_index(attr) == (CHOOSE i \in 1..Len(ATTR_FORMAT) : ATTR_FORMAT[i] = attr) - 1

\* bool(self.attr & (1 << attr))
has_attr(cell, attr) == (cell.attr \div (2 ^ attr_index(attr))) % 2 = 1

\* mask | (1 << ATTR_FORMAT.index(attr))
WithBit(mask, attr) ==
    IF (mask \div (2 ^ attr_index(attr))) % 2 = 1 THEN mask
    ELSE mask + 2 ^ attr_index(attr)

\* attr_changed
attr_changed(new, old) ==
    ~(new.fg = old.fg /\ new.bg = old.bg /\ new.attr = old.attr)

\* Window.__setitem__, lines 235-238: the cell with its is-set bits forced on.
\* The cell object itself is changed, then copied into buf.
SetItemCell(cell) ==
    [cell EXCEPT !.attr =
        LET a == IF cell.fg # 0 THEN WithBit(@, FG_OFFSET) ELSE @
        IN IF cell.bg # 0 THEN WithBit(a, BG_OFFSET) ELSE a]

\* Window.fill: every cell gets the four values as given.
Fill(n, cell) == [i \in 1..n |-> cell]

\* Window(rows, cols, ch, fg, bg, attr).buf; by default ' ', 0, 0, 0.
Blank == CellType(32, 0, 0, 0)
Window(r, c, cell) == Fill(r * c, cell)

(***************************************************************************)
(* What Terminal writes to outfile: escape(code, *params) writes           *)
(* CSI + ';'.join(params) + code, outfile.write(ch) a glyph.  at is not    *)
(* written: it is the cell refresh was at when it wrote the glyph.         *)
(***************************************************************************)
Escape(code, params) == [kind |-> "esc", code |-> code, params |-> params, at |-> 0]
Glyph(ch, i) == [kind |-> "ch", code |-> ch, params |-> <<>>, at |-> i]

\* attr_off(attr) of the module
attr_off(attr) ==
    CASE attr \in {BOLD, FAINT} -> BOLD_FAINT_OFF
      [] attr \in {ITALIC, FRAKTUR} -> ITALIC_FRAKTUR_OFF
      [] attr = UNDERLINE -> UNDERLINE_OFF
      [] attr \in {BLINK_SLOW, BLINK_FAST} -> BLINK_OFF
      [] attr = REVERSE_VIDEO -> REVERSE_VIDEO_OFF
      [] attr = CONCEAL -> CONCEAL_OFF
      [] attr = STRIKE_OUT -> STRIKE_OUT_OFF
      [] attr = FG_OFFSET -> DEFAULT_FG
      [] attr = BG_OFFSET -> DEFAULT_BG

\* color_attr: the parameters of the colour, '%d' or '%d;5;%d'.
color_attr(offset, color) ==
    IF color < 8 THEN <<offset + color>> ELSE <<offset + 8, 5, color>>

\* refresh, lines 372-385: what one attribute adds to args.
SgrArg(attr, new, old) ==
    IF attr \in {FG_OFFSET, BG_OFFSET}
    THEN IF has_attr(new, attr)
         THEN IF attr = FG_OFFSET /\ (~has_attr(old, attr) \/ new.fg # old.fg)
              THEN color_attr(attr, new.fg)
              ELSE IF attr = BG_OFFSET /\ (~has_attr(old, attr) \/ new.bg # old.bg)
              THEN color_attr(attr, new.bg)
              ELSE <<>>
         ELSE <<>>
    ELSE IF has_attr(new, attr) /\ ~has_attr(old, attr) THEN <<attr>>
    ELSE IF ~has_attr(new, attr) /\ has_attr(old, attr) THEN <<attr_off(attr)>>
    ELSE <<>>

\* refresh, lines 370-386: args, over ATTR_FORMAT from its i-th attribute on.
RECURSIVE SgrArgs(_, _, _)
SgrArgs(i, new, old) ==
    IF i > Len(ATTR_FORMAT) THEN <<>>
    ELSE SgrArg(ATTR_FORMAT[i], new, old) \o SgrArgs(i + 1, new, old)

Max(a, b) == IF a >= b THEN a ELSE b
Min(a, b) == IF a <= b THEN a ELSE b

\* The mutation of Clamp that takes the coordinate as it is given.
ClampNothing(v, hi) == v

\* v = max(v, 1); v = min(v, hi)
Clamp(v, hi) == Min(Max(v, 1), hi)

\* The mutation of MoveEscapes that moves on each axis in turn.
MoveEscapesPerAxis(dr, dc, row, col) ==
    (IF dr > 0 THEN <<Escape(CURSOR_DOWN, <<dr>>)>>
     ELSE IF dr < 0 THEN <<Escape(CURSOR_UP, <<-dr>>)>> ELSE <<>>)
    \o (IF dc > 0 THEN <<Escape(CURSOR_RIGHT, <<dc>>)>>
        ELSE IF dc < 0 THEN <<Escape(CURSOR_LEFT, <<-dc>>)>> ELSE <<>>)

\* move_cursor, lines 340-349: what it writes.
MoveEscapes(dr, dc, row, col) ==
    IF dr # 0 /\ dc # 0 THEN <<Escape(CURSOR_POS, <<row, col>>)>>
    ELSE IF dr > 0 THEN <<Escape(CURSOR_DOWN, <<dr>>)>>
    ELSE IF dr < 0 THEN <<Escape(CURSOR_UP, <<-dr>>)>>
    ELSE IF dc > 0 THEN <<Escape(CURSOR_RIGHT, <<dc>>)>>
    ELSE IF dc < 0 THEN <<Escape(CURSOR_LEFT, <<-dc>>)>>
    ELSE <<>>

\* move_cursor(row, col) with the cursor tracked at pos: the new cursor_pos and
\* what is written.
move_cursor(pos, row, col, nrows, ncols) ==
    LET r == Clamp(row, nrows)
        c == Clamp(col, ncols)
    IN [pos |-> <<r, c>>, out |-> MoveEscapes(r - pos[1], c - pos[2], r, c)]

\* increment_cursor
increment_cursor(pos, ncols) ==
    IF pos[2] + 1 = ncols THEN <<pos[1] + 1, 0>> ELSE <<pos[1], pos[2] + 1>>

\* The mutation of Aliased in which new is a copy of the cell of stdscr.
Copied(new, cell) == new

\* refresh, lines 365 and 388: new is the cell of stdscr itself, not a copy, so
\* once __setitem__ has made cell of new, the cell of stdscr is cell.
Aliased(new, cell) == cell

\* The mutation of Store that leaves the shown cell as it was.
StoreNothing(buffer, i, cell) == buffer

\* self.buf[r * self.cols + c] = cell
Store(buffer, i, cell) == [buffer EXCEPT ![i] = cell]

\* refresh, lines 364-389, for the cell of index i (row (i-1) \div cols, column
\* (i-1) % cols).  st is [std, cur, pos, out]: the two buffers, cursor_pos, and
\* what the pass has written so far.  new is the cell of stdscr itself, not a
\* copy: what __setitem__ does to it (line 388) is done to stdscr.
RefreshCell(st, i, nrows, ncols) ==
    LET old == st.cur[i]
        new == st.std[i]
        target == <<((i - 1) \div ncols) + 1, ((i - 1) % ncols) + 1>>
        mv == IF st.pos # target
              THEN move_cursor(st.pos, target[1], target[2], nrows, ncols)
              ELSE [pos |-> st.pos, out |-> <<>>]
        sgr == IF attr_changed(new, old)
               THEN <<Escape(SGR, SgrArgs(1, new, old))>> ELSE <<>>
        cell == SetItemCell(new)
    IN IF new = old THEN st
       ELSE [std |-> [st.std EXCEPT ![i] = Aliased(new, cell)],
             cur |-> Store(st.cur, i, cell),
             pos |-> increment_cursor(mv.pos, ncols),
             out |-> st.out \o mv.out \o sgr \o <<Glyph(new.ch, i)>>]

\* refresh, lines 362-363: the cells from index i on, in row-major order.
RECURSIVE RefreshFrom(_, _, _, _)
RefreshFrom(st, i, nrows, ncols) ==
    IF i > nrows * ncols THEN st
    ELSE RefreshFrom(RefreshCell(st, i, nrows, ncols), i + 1, nrows, ncols)

(***************************************************************************)
(* The terminal at the other end of outfile: a screen of nrows x ncols     *)
(* whose cursor is set by CSI r;c H, moved and stopped at the edges by     *)
(* CSI n A/B/C/D and advanced by a glyph, to the start of the next row     *)
(* after the last column; and whose graphic rendition is what the SGR      *)
(* sequences written so far add up to.  A colour is <<>> (the default) or  *)
(* <<n>>.                                                                  *)
(***************************************************************************)
DefaultStyle == [attrs |-> {}, fg |-> <<>>, bg |-> <<>>]

\* The attributes one "off" parameter turns off.
TurnedOff(p) == {a \in {BOLD, FAINT, ITALIC, UNDERLINE, BLINK_SLOW, BLINK_FAST,
                        REVERSE_VIDEO, CONCEAL, STRIKE_OUT, FRAKTUR} :
                   attr_off(a) = p}

\* The rendition after the SGR parameters ps, read from the left.
RECURSIVE ApplySgr(_, _)
ApplySgr(style, ps) ==
    IF ps = <<>> THEN style
    ELSE LET q == Head(ps) IN
      IF q = 0 THEN ApplySgr(DefaultStyle, Tail(ps))
      ELSE IF q \in {FG_OFFSET + 8, BG_OFFSET + 8} /\ Len(ps) >= 3 /\ ps[2] = 5
      THEN ApplySgr(IF q = FG_OFFSET + 8 THEN [style EXCEPT !.fg = <<ps[3]>>]
                    ELSE [style EXCEPT !.bg = <<ps[3]>>],
                    SubSeq(ps, 4, Len(ps)))
      ELSE ApplySgr(
             IF q \in FG_OFFSET..(FG_OFFSET + 7)
             THEN [style EXCEPT !.fg = <<q - FG_OFFSET>>]
             ELSE IF q \in BG_OFFSET..(BG_OFFSET + 7)
             THEN [style EXCEPT !.bg = <<q - BG_OFFSET>>]
             ELSE IF q = DEFAULT_FG THEN [style EXCEPT !.fg = <<>>]
             ELSE IF q = DEFAULT_BG THEN [style EXCEPT !.bg = <<>>]
             ELSE IF q \in {BOLD, FAINT, ITALIC, UNDERLINE, BLINK_SLOW, BLINK_FAST,
                            REVERSE_VIDEO, CONCEAL, STRIKE_OUT, FRAKTUR}
             THEN [style EXCEPT !.attrs = @ \cup {q}]
             ELSE [style EXCEPT !.attrs = @ \ TurnedOff(q)],
             Tail(ps))

\* The terminal t after one thing written to it.  CSI m, without parameters,
\* is CSI 0 m.
TermWrite(t, w, nrows, ncols) ==
    LET r == t.cursor[1]
        c == t.cursor[2]
        n == IF w.params = <<>> THEN 1 ELSE w.params[1]
    IN IF w.kind = "ch"
       THEN [t EXCEPT !.cursor = IF c < ncols THEN <<r, c + 1>>
                                 ELSE <<Min(r + 1, nrows), 1>>]
       ELSE IF w.code = SGR
       THEN [t EXCEPT !.style = IF w.params = <<>> THEN DefaultStyle
                                ELSE ApplySgr(@, w.params)]
       ELSE IF w.code = CURSOR_POS
       THEN [t EXCEPT !.cursor = <<Min(Max(w.params[1], 1), nrows),
                                   Min(Max(w.params[2], 1), ncols)>>]
       ELSE IF w.code = CURSOR_UP THEN [t EXCEPT !.cursor = <<Max(r - n, 1), c>>]
       ELSE IF w.code = CURSOR_DOWN
       THEN [t EXCEPT !.cursor = <<Min(r + n, nrows), c>>]
       ELSE IF w.code = CURSOR_RIGHT
       THEN [t EXCEPT !.cursor = <<r, Min(c + n, ncols)>>]
       ELSE IF w.code = CURSOR_LEFT THEN [t EXCEPT !.cursor = <<r, Max(c - n, 1)>>]
       ELSE t

\* The terminal t after all of out.
RECURSIVE TermRun(_, _, _, _)
TermRun(t, out, nrows, ncols) ==
    IF out = <<>> THEN t
    ELSE TermRun(TermWrite(t, Head(out), nrows, ncols), Tail(out), nrows, ncols)

(***************************************************************************)
(* The program drawing: cell writes, fills and swaps of the pending        *)
(* window, refresh and move_cursor.                                        *)
(***************************************************************************)
\* What term_size() may return.
TermSizes == {<<1, 2>>, <<2, 2>>, <<2, 3>>}

\* The cells the program writes: 'x' plain, 'y' with foreground 3, 'x' bold.
CellValues == {CellType(120, 0, 0, 0), CellType(121, 3, 0, 0), CellType(120, 0, 0, 1)}

\* What the program fills a window with: the default, and 'z' with foreground 3.
FillValues == {Blank, CellType(122, 3, 0, 0)}

NoPass == [diff |-> {}, pos |-> <<>>, term |-> <<>>]

NoDraw == [op |-> "none", args |-> <<>>, exc |-> <<>>]

\* Terminal.__init__, lines 280-282
RenderInit(sizes) ==
    /\ \E sz \in sizes :
         /\ rows = sz[1]
         /\ cols = sz[2]
         /\ stdscr = Window(sz[1], sz[2], Blank)
         /\ curscr = Window(sz[1], sz[2], Blank)
    /\ outfile = <<>>
    /\ pass = NoPass
    /\ consec = 0
    /\ nops = 0

\* The terminal when the program starts, its cursor in one of the corners; one
\* thread runs loop; nothing has been called or written.
AuxInit(corners) ==
    /\ \E k \in corners :
         term = [cursor |-> IF k = "home" THEN <<1, 1>> ELSE <<rows, cols>>,
                 style |-> DefaultStyle]
    /\ others = <<>>
    /\ lastcall = NoDraw
    /\ writes = {}

\* t[r, c] = value: Terminal.__setitem__, Window.__setitem__ on stdscr
SetCell ==
    /\ fgpc = "idle"
    /\ nops < MaxOps
    /\ \E i \in 1..(rows * cols), v \in CellValues :
         /\ stdscr' = Store(stdscr, i, SetItemCell(v))
         /\ lastcall' = [op |-> "setitem", args |-> <<i, v>>, exc |-> <<>>]
    /\ nops' = nops + 1
    /\ consec' = 0
    /\ pass' = NoPass
    /\ outfile' = <<>>
    /\ UNCHANGED <<parserVars, inputVars, queryVars, rows, cols, curscr, lifeVars,
                   term, others, writes>>

\* stdscr.fill(ch, fg, bg, attr); stdscr.clear() is the fill with the defaults
FillScreen ==
    /\ fgpc = "idle"
    /\ nops < MaxOps
    /\ \E v \in FillValues :
         /\ stdscr' = Fill(rows * cols, v)
         /\ lastcall' = [op |-> "fill", args |-> <<v>>, exc |-> <<>>]
    /\ nops' = nops + 1
    /\ consec' = 0
    /\ pass' = NoPass
    /\ outfile' = <<>>
    /\ UNCHANGED <<parserVars, inputVars, queryVars, rows, cols, curscr, lifeVars,
                   term, others, writes>>

\* The mutation of SameSize that takes a window of any size.
SameSizeAlways(sz, nrows, ncols) == TRUE

\* scr.rows == self.curscr.rows and scr.cols == self.curscr.cols
SameSize(sz, nrows, ncols) == sz[1] = nrows /\ sz[2] = ncols

\* set_screen(scr), scr a window the program has made with Window(r, c, ...):
\* an AssertionError, and nothing changed, unless scr has the size of curscr.
SetScreen ==
    /\ fgpc = "idle"
    /\ nops < MaxOps
    /\ \E sz \in TermSizes, v \in FillValues :
         IF SameSize(sz, rows, cols)
         THEN /\ stdscr' = Window(sz[1], sz[2], v)
              /\ lastcall' = [op |-> "set_screen", args |-> <<sz, v>>, exc |-> <<>>]
         ELSE /\ stdscr' = stdscr
              /\ lastcall' = [op |-> "set_screen", args |-> <<sz, v>>,
                              exc |-> <<"AssertionError">>]
    /\ nops' = nops + 1
    /\ consec' = 0
    /\ pass' = NoPass
    /\ outfile' = <<>>
    /\ UNCHANGED <<parserVars, inputVars, queryVars, rows, cols, curscr, lifeVars,
                   term, others, writes>>

\* refresh().  When cursor_pos is None the first cell that differs has
\* move_cursor raise TypeError (line 338), nothing having been written.
Refresh ==
    /\ fgpc = "idle"
    /\ IF cursor_pos = <<>> /\ stdscr # curscr
       THEN /\ lastcall' = [op |-> "refresh", args |-> <<>>, exc |-> <<"TypeError">>]
            /\ outfile' = <<>>
            /\ UNCHANGED <<stdscr, curscr, cursor_pos, term>>
       ELSE LET st == RefreshFrom([std |-> stdscr, cur |-> curscr,
                                   pos |-> cursor_pos, out |-> <<>>], 1, rows, cols)
            IN /\ stdscr' = st.std
               /\ curscr' = st.cur
               /\ cursor_pos' = st.pos
               /\ outfile' = st.out
               /\ term' = TermRun(term, st.out, rows, cols)
               /\ lastcall' = [op |-> "refresh", args |-> <<>>, exc |-> <<>>]
    /\ pass' = [diff |-> {i \in 1..(rows * cols) : stdscr[i] # curscr[i]},
                pos |-> cursor_pos, term |-> term]
    /\ consec' = IF consec = 0 THEN 1 ELSE 2
    /\ UNCHANGED <<parserVars, inputVars, dsrs, termcursor, reports, ncpr,
                   cursorret, rows, cols, nops, lifeVars, others, writes>>

\* move_cursor(row, col), called by the program.  When cursor_pos is None line
\* 338 raises TypeError.
MoveCursor ==
    /\ fgpc = "idle"
    /\ nops < MaxOps
    /\ \E r \in 0..(rows + 1), c \in 0..(cols + 1) :
         IF cursor_pos = <<>>
         THEN /\ lastcall' = [op |-> "move_cursor", args |-> <<r, c>>,
                              exc |-> <<"TypeError">>]
              /\ outfile' = <<>>
              /\ UNCHANGED <<cursor_pos, term>>
         ELSE LET mv == move_cursor(cursor_pos, r, c, rows, cols)
              IN /\ cursor_pos' = mv.pos
                 /\ outfile' = mv.out
                 /\ term' = TermRun(term, mv.out, rows, cols)
                 /\ lastcall' = [op |-> "move_cursor", args |-> <<r, c>>,
                                 exc |-> <<>>]
    /\ nops' = nops + 1
    /\ consec' = 0
    /\ pass' = NoPass
    /\ UNCHANGED <<parserVars, inputVars, dsrs, termcursor, reports, ncpr,
                   cursorret, rows, cols, stdscr, curscr, lifeVars, others, writes>>

(***************************************************************************)
(* Terminal as a context manager.  The terminal's mode is the set of the   *)
(* features of the cooked mode that are off; tty.setcbreak turns echo and  *)
(* canonical input off, tty.setraw those and signals, output processing    *)
(* and input translation.                                                  *)
(***************************************************************************)
CbreakOff == {"ECHO", "ICANON"}
RawOff == {"ECHO", "ICANON", "ISIG", "OPOST", "ICRNL"}

\* The modes the terminal may be in when the program starts.
StartModes == {{}, CbreakOff, RawOff, {"OPOST"}}

\* The dispositions of SIGWINCH the program may start with.
StartHandlers == {"SIG_DFL", "SIG_IGN", "handler"}

NotEntered == [mode |-> <<>>, sig |-> <<>>, changed |-> FALSE, by |-> "none",
               calls |-> 0, interrupted |-> FALSE]

LifeInit(modes, handlers) ==
    /\ termmode \in modes
    /\ sighandler \in handlers
    /\ mode = <<>>
    /\ sigwinch = <<>>
    /\ scope = "out"
    /\ entered = NotEntered

\* __enter__
Enter ==
    /\ scope \in {"out", "exited"}
    /\ mode' = <<termmode>>
    /\ sigwinch' = <<sighandler>>
    /\ sighandler' = "resize"
    /\ scope' = "in"
    /\ entered' = [mode |-> termmode, sig |-> sighandler, changed |-> FALSE,
                   by |-> "none", calls |-> 0, interrupted |-> FALSE]
    /\ UNCHANGED <<parserVars, inputVars, queryVars, renderVars, termmode, auxVars>>

\* What a call does to the history: inside the block it is counted, and after
\* __exit__ has returned the program is simply outside.
AfterCall(changes) ==
    /\ scope' = IF scope = "exited" THEN "out" ELSE scope
    /\ entered' = IF scope = "in"
                  THEN [entered EXCEPT !.calls = @ + 1,
                                       !.changed = @ \/ changes]
                  ELSE entered

CanCall == scope \in {"out", "exited"} \/ (scope = "in" /\ entered.calls < MaxBody)

\* setraw()
SetRaw ==
    /\ CanCall
    /\ termmode' = termmode \cup RawOff
    /\ AfterCall(termmode' # termmode)
    /\ UNCHANGED <<parserVars, inputVars, queryVars, renderVars, sighandler, mode,
                   sigwinch, auxVars>>

\* setcbreak()
SetCbreak ==
    /\ CanCall
    /\ termmode' = termmode \cup CbreakOff
    /\ AfterCall(termmode' # termmode)
    /\ UNCHANGED <<parserVars, inputVars, queryVars, renderVars, sighandler, mode,
                   sigwinch, auxVars>>

\* A call inside the block raises: attr_on(FG_OFFSET) (RuntimeError),
\* set_screen of a window of another size (AssertionError).  The exception
\* leaves the block.
BodyRaises ==
    /\ scope = "in"
    /\ scope' = "raising"
    /\ UNCHANGED <<parserVars, inputVars, queryVars, renderVars, termmode,
                   sighandler, mode, sigwinch, entered, auxVars>>

\* __exit__, line by line: it runs in the main thread, where the handler of
\* SIGWINCH runs too, between any two of its steps.
\* self.escape(SGR, 0)
ExitEscape ==
    /\ scope \in {"in", "raising"}
    /\ outfile' = <<Escape(SGR, <<0>>)>>
    /\ scope' = "exit_stop"
    /\ entered' = [entered EXCEPT !.by = IF scope = "in" THEN "end" ELSE "error"]
    /\ term' = TermRun(term, outfile', rows, cols)
    /\ UNCHANGED <<parserVars, inputVars, queryVars, rows, cols, stdscr, curscr,
                   cursor_pos, pass, consec, nops, termmode, sighandler, mode,
                   sigwinch, others, lastcall, writes>>

\* self.infile.stop()
ExitStop ==
    /\ scope = "exit_stop"
    /\ running' = FALSE
    /\ scope' = "exit_mode"
    /\ writes' = writes \cup {<<"running", {}>>}
    /\ UNCHANGED <<parserVars, buf, bgpc, bgchar, fgpc, fgcall, got, reads,
                   queryVars, renderVars, termmode, sighandler, mode, sigwinch,
                   entered, term, others, lastcall>>

\* termios.tcsetattr(self.infile, termios.TCSAFLUSH, self.mode)
ExitRestoreMode ==
    /\ scope = "exit_mode"
    /\ termmode' = mode[1]
    /\ scope' = "exit_signal"
    /\ UNCHANGED <<parserVars, inputVars, queryVars, renderVars, sighandler, mode,
                   sigwinch, entered, auxVars>>

\* signal.signal(signal.SIGWINCH, self.sigwinch), and __exit__ returns
ExitRestoreSignal ==
    /\ scope = "exit_signal"
    /\ sighandler' = sigwinch[1]
    /\ scope' = "exited"
    /\ UNCHANGED <<parserVars, inputVars, queryVars, renderVars, termmode, mode,
                   sigwinch, entered, auxVars>>

Exit == ExitEscape \/ ExitStop \/ ExitRestoreMode \/ ExitRestoreSignal

\* The window is resized while self.resize is the handler of SIGWINCH: resize
\* raises NotImplementedError in the main thread.  Inside the block the
\* exception leaves the block; inside __exit__ it leaves __exit__, whose
\* remaining lines do not run.
Resize ==
    /\ sighandler = "resize"
    /\ scope \in {"in", "exit_stop", "exit_mode", "exit_signal"}
    /\ scope' = IF scope = "in" THEN "raising" ELSE "exited"
    /\ entered' = IF scope = "in" THEN entered
                  ELSE [entered EXCEPT !.interrupted = TRUE]
    /\ UNCHANGED <<parserVars, inputVars, queryVars, renderVars, termmode,
                   sighandler, mode, sigwinch, auxVars>>

\* Where the terminal's cursor may be when the program starts.
CursorPlaces == {<<6, 10>>}

NoCall == [op |-> "none", wait |-> FALSE, line |-> <<>>]

(***************************************************************************)
(* The parser fed character by character, with a callback that records its *)
(* arguments.                                                              *)
(***************************************************************************)
\* The state of each part of the program after construction.
ParserInit ==
    /\ gen = NewParser
    /\ infile = <<>>
    /\ sent = <<>>
    /\ yielded = <<>>
    /\ calls = <<>>
    /\ raised = <<>>

\* InputWrapper.__init__: an empty buffer, and start() has set running and
\* started the thread, which has made its generator (lines 145-146).
InputInit ==
    /\ running = TRUE
    /\ buf = <<>>
    /\ bgpc = "top"
    /\ bgchar = <<>>
    /\ fgpc = "idle"
    /\ fgcall = NoCall
    /\ got = <<>>
    /\ reads = <<>>

\* Terminal.__init__: self.cursor_pos = -1, -1
QueryInit ==
    /\ cursor_pos = <<-1, -1>>
    /\ dsrs = 0
    /\ termcursor \in CursorPlaces
    /\ reports = <<>>
    /\ ncpr = 0
    /\ cursorret = <<>>

InitParser ==
    ParserInit /\ InputInit /\ QueryInit /\ RenderInit({<<1, 2>>})
    /\ LifeInit({{}}, {"SIG_DFL"})
    /\ AuxInit({"home"})

\* The feeder writes one more item to the stream.
WriteItem ==
    /\ Len(sent) < MaxItems
    /\ \E it \in ParserItems :
         /\ infile' = infile \o ItemChars(it)
         /\ sent' = Append(sent, it)
    /\ UNCHANGED <<gen, yielded, calls, raised, inputVars, queryVars, renderVars, lifeVars,
                   auxVars>>

\* char = gen.send(char) for the next character of the stream.
ParserSend ==
    /\ infile # <<>>
    /\ raised = <<>>
    /\ LET r == Send(gen, Head(infile)) IN
         /\ gen' = r.gen
         /\ infile' = Tail(infile)
         /\ yielded' = yielded \o r.out
         /\ calls' = IF r.cb = <<>> THEN calls ELSE Append(calls, r.cb)
         /\ raised' = r.exc
    /\ UNCHANGED <<sent, inputVars, queryVars, renderVars, lifeVars, auxVars>>

NextParser == WriteItem \/ ParserSend

SpecParser == InitParser /\ [][NextParser]_vars

(***************************************************************************)
(* What a stream of items is to produce: its plain characters, and one     *)
(* (params, intermediate bytes + final byte) pair per CSI sequence.        *)
(***************************************************************************)
RECURSIVE ExpectedPlain(_)
ExpectedPlain(items) ==
    IF items = <<>> THEN <<>>
    ELSE (IF Head(items).kind = "plain" THEN <<Head(items).ch>> ELSE <<>>)
         \o ExpectedPlain(Tail(items))

RECURSIVE ExpectedCalls(_)
ExpectedCalls(items) ==
    IF items = <<>> THEN <<>>
    ELSE (IF Head(items).kind = "csi"
          THEN <<<<Head(items).params, Append(Head(items).inter, Head(items).ch)>>>>
          ELSE <<>>)
         \o ExpectedCalls(Tail(items))

IsPrefix(s, t) == Len(s) <= Len(t) /\ SubSeq(t, 1, Len(s)) = s

WellFormed(items) == \A i \in 1..Len(items) : items[i].kind # "bad"

\* C1: a stream of plain characters and well-formed CSI sequences, fed one
\* character at a time, never raises; what send has returned so far is a prefix
\* of the stream's plain characters and the callback's calls so far a prefix of
\* its CSI sequences' (params, intermediates + final byte); once the whole
\* stream is consumed both are exactly those, in stream order.
ParserRoundTrip ==
    WellFormed(sent) =>
        /\ raised = <<>>
        /\ IsPrefix(yielded, ExpectedPlain(sent))
        /\ IsPrefix(calls, ExpectedCalls(sent))
        /\ infile = <<>> =>
             /\ yielded = ExpectedPlain(sent)
             /\ calls = ExpectedCalls(sent)
             /\ gen.st = "Normal"

\* A plain character follows a CSI sequence with parameters and an intermediate
\* byte, which follows a plain character; all of it has been consumed.
ParserRoundTripWitness ==
    /\ infile = <<>>
    /\ sent = <<PlainItem(49), CsiItem(<<54, 59, 49>>, <<32>>, CPR), PlainItem(91)>>
    /\ yielded = <<49, 91>>
    /\ calls = <<<<(<<54, 59, 49>>), <<32, CPR>>>>>>

\* C2: when the parser has just consumed ESC, sending it a character other
\* than '[' raises NotImplementedError, calls the callback for nothing and
\* returns no character.
ParserRejectsMalformedPrefix ==
    [][(/\ gen.st = "SawEsc"
        /\ infile # <<>>
        /\ Head(infile) # CSI
        /\ infile' = Tail(infile))
       => (/\ raised' = <<"NotImplementedError", Head(infile) \div 16,
                          Head(infile) % 16>>
           /\ gen'.st = "Closed"
           /\ calls' = calls
           /\ yielded' = yielded)]_vars

\* ESC followed by 'A' was sent after a CSI sequence: the parser raised.
ParserRejectsWitness ==
    /\ Len(sent) = 2
    /\ sent[1].kind = "csi"
    /\ sent[2] = BadItem(65)
    /\ infile = <<>>
    /\ raised = <<"NotImplementedError", 4, 1>>
    /\ Len(calls) = 1

(***************************************************************************)
(* InputWrapper.read                                                       *)
(***************************************************************************)
\* A slice bound v of a string of length L, as Python normalises it.
Clip(v, L) ==
    IF v < 0 THEN (IF v + L < 0 THEN 0 ELSE v + L)
    ELSE IF v > L THEN L ELSE v

\* s[:n], n being <<>> (None) or <<k>>
SliceTo(s, n) == SubSeq(s, 1, IF n = <<>> THEN Len(s) ELSE Clip(n[1], Len(s)))

\* The mutation of SliceFrom that removes nothing from the string.
SliceFromKeepsAll(s, n) == s

\* s[n:], n being <<>> (None) or <<k>>
SliceFrom(s, n) ==
    SubSeq(s, (IF n = <<>> THEN 0 ELSE Clip(n[1], Len(s))) + 1, Len(s))

\* read(n), under self.lock: string = self.buf[:n]; self.buf = self.buf[n:]
Read(b, n) == [ret |-> SliceTo(b, n), buf |-> SliceFrom(b, n)]

(***************************************************************************)
(* Terminal.handle_escape and Terminal.cpr_callback                        *)
(***************************************************************************)
\* str.split(sep)
RECURSIVE Split(_, _)
Split(str, sep) ==
    IF \A i \in 1..Len(str) : str[i] # sep THEN <<str>>
    ELSE LET i == CHOOSE j \in 1..Len(str) :
                    str[j] = sep /\ \A k \in 1..(j - 1) : str[k] # sep
         IN <<SubSeq(str, 1, i - 1)>> \o Split(SubSeq(str, i + 1, Len(str)), sep)

\* Whether int(str) returns (it raises ValueError otherwise); the strings here
\* hold parameter bytes only.
IsInt(str) == str # <<>> /\ \A i \in 1..Len(str) : 48 <= str[i] /\ str[i] <= 57

\* int(str)
RECURSIVE ToInt(_)
ToInt(str) ==
    IF str = <<>> THEN 0
    ELSE 10 * ToInt(SubSeq(str, 1, Len(str) - 1)) + (str[Len(str)] - 48)

\* str(n), n >= 0
RECURSIVE Str(_)
Str(n) == IF n < 10 THEN <<48 + n>> ELSE Str(n \div 10) \o <<48 + (n % 10)>>

\* The mutation of Notify that wakes nobody.
NotifyNobody(pc, waiting, woken) == pc

\* cond.notify(): the foreground thread, if it waits on the condition (its pc is
\* waiting), is woken.
Notify(pc, waiting, woken) == IF pc = waiting THEN woken ELSE pc

\* cpr_callback(*args): the new cursor_pos, or TypeError for too many arguments.
CprCallback(args) ==
    IF Len(args) > 2
    THEN [exc |-> <<"TypeError">>, called |-> FALSE, pos |-> <<>>]
    ELSE [exc |-> <<>>, called |-> TRUE,
          pos |-> <<args[1], IF Len(args) = 2 THEN args[2] ELSE 1>>]

\* handle_escape(params, code), the callback of the input reader's parser.
HandleEscape(params, code) ==
    IF code # <<CPR>>
    THEN [exc |-> <<>>, called |-> FALSE, pos |-> <<>>]
    ELSE LET pieces == Split(params, 59) IN
         IF \E i \in 1..Len(pieces) : ~IsInt(pieces[i])
         THEN [exc |-> <<"ValueError">>, called |-> FALSE, pos |-> <<>>]
         ELSE CprCallback([i \in 1..Len(pieces) |-> ToInt(pieces[i])])

\* The cursor-position report of a terminal whose cursor is at pos.
CprItem(pos) == CsiItem(Str(pos[1]) \o <<59>> \o Str(pos[2]), <<>>, CPR)

(***************************************************************************)
(* What arrives on the input reader's stream: what the user types (plain   *)
(* characters, the up-arrow key ESC [ A, and ESC [ R, a cursor-position    *)
(* report without parameters) and the terminal's answers to DSR.           *)
(***************************************************************************)
TypedItems ==
    {PlainItem(65), PlainItem(66), PlainItem(10),
     CsiItem(<<>>, <<>>, 65), CsiItem(<<>>, <<>>, CPR)}

TypeItem ==
    /\ Len(sent) - Len(reports) < MaxTyped
    /\ \E it \in TypedItems :
         /\ infile' = infile \o ItemChars(it)
         /\ sent' = Append(sent, it)
    /\ UNCHANGED <<gen, yielded, calls, raised, inputVars, queryVars, renderVars, lifeVars,
                   auxVars>>

TerminalReply ==
    /\ dsrs > 0
    /\ dsrs' = dsrs - 1
    /\ infile' = infile \o ItemChars(CprItem(termcursor))
    /\ sent' = Append(sent, CprItem(termcursor))
    /\ reports' = Append(reports, termcursor)
    /\ UNCHANGED <<gen, yielded, calls, raised, inputVars,
                   cursor_pos, termcursor, ncpr, cursorret, renderVars, lifeVars,
                   auxVars>>

(***************************************************************************)
(* InputWrapper.loop, the background thread.  bgpc:                        *)
(*   "top"     line 147, about to test self.running                        *)
(*   "select"  lines 148-151: select, infile.read(1), gen.send(char)       *)
(*   "reread"  lines 153, 151: infile.read(1), gen.send(char)              *)
(*   "append"  lines 156-157                                               *)
(*   "notify"  lines 158-160                                               *)
(*   "done"    the loop has ended;  "dead"  an exception ended the thread  *)
(***************************************************************************)
LoopTop ==
    /\ bgpc = "top"
    /\ bgpc' = IF running THEN "select" ELSE "done"
    /\ UNCHANGED <<parserVars, running, buf, bgchar, fgpc, fgcall, got, reads,
                   queryVars, renderVars, lifeVars, auxVars>>

LoopSend ==
    /\ bgpc \in {"select", "reread"}
    /\ infile # <<>>
    /\ LET r == Send(gen, Head(infile))
           h == IF r.cb = <<>>
                THEN [exc |-> <<>>, called |-> FALSE, pos |-> <<>>]
                ELSE HandleEscape(r.cb[1], r.cb[2])
           exc == IF r.exc # <<>> THEN r.exc ELSE h.exc
       IN
         /\ infile' = Tail(infile)
         /\ gen' = IF exc # <<>> THEN [r.gen EXCEPT !.st = "Closed"] ELSE r.gen
         /\ yielded' = yielded \o r.out
         /\ calls' = IF r.cb = <<>> THEN calls ELSE Append(calls, r.cb)
         /\ raised' = exc
         /\ bgchar' = r.out
         /\ bgpc' = IF exc # <<>> THEN "dead"
                    ELSE IF r.out = <<>> THEN "reread" ELSE "append"
         \* cpr_callback, under self.dsr_cond
         /\ cursor_pos' = IF h.called THEN h.pos ELSE cursor_pos
         /\ ncpr' = IF h.called THEN ncpr + 1 ELSE ncpr
         /\ fgpc' = IF h.called THEN Notify(fgpc, "cur_waiting", "cur_check")
                    ELSE fgpc
         /\ writes' = IF h.called THEN writes \cup {<<"cursor_pos", {"dsr_cond"}>>}
                      ELSE writes
    /\ UNCHANGED <<sent, running, buf, fgcall, got, reads,
                   dsrs, termcursor, reports, cursorret, renderVars, lifeVars,
                   term, others, lastcall>>

LoopAppend ==
    /\ bgpc = "append"
    /\ buf' = buf \o bgchar
    /\ bgchar' = <<>>
    /\ bgpc' = "notify"
    /\ writes' = writes \cup {<<"buf", {"lock"}>>}
    /\ UNCHANGED <<parserVars, running, fgpc, fgcall, got, reads, queryVars, renderVars, lifeVars,
                   term, others, lastcall>>

LoopNotify ==
    /\ bgpc = "notify"
    /\ fgpc' = Notify(fgpc, "waiting", "read")
    /\ bgpc' = "top"
    /\ UNCHANGED <<parserVars, running, buf, bgchar, fgcall, got, reads,
                   queryVars, renderVars, lifeVars, auxVars>>

(***************************************************************************)
(* The foreground thread.  fgpc:                                           *)
(*   "idle"         between calls                                          *)
(*   "read"         getchar, line 130                                      *)
(*   "wait"         getchar, line 133: about to wait on self.cond          *)
(*   "waiting"      getchar, line 134: in self.cond.wait(1)                *)
(*   "cur_dsr"      get_cursor, line 321                                   *)
(*   "cur_check"    get_cursor, lines 323-326, about to take dsr_cond      *)
(*   "cur_waiting"  get_cursor, line 325: in self.dsr_cond.wait()          *)
(***************************************************************************)
CallGetChar ==
    /\ fgpc = "idle"
    /\ fgpc' = "read"
    /\ fgcall' = [op |-> "getchar", wait |-> FALSE, line |-> <<>>]
    /\ UNCHANGED <<parserVars, running, buf, bgpc, bgchar, got, reads,
                   queryVars, renderVars, lifeVars, auxVars>>

CallGetString ==
    /\ fgpc = "idle"
    /\ fgpc' = "read"
    /\ fgcall' = [op |-> "getstring", wait |-> FALSE, line |-> <<>>]
    /\ UNCHANGED <<parserVars, running, buf, bgpc, bgchar, got, reads,
                   queryVars, renderVars, lifeVars, auxVars>>

\* ch = self.read(1), and what getchar and getstring do with it.
GetCharRead ==
    /\ fgpc = "read"
    /\ LET r == Read(buf, <<1>>) IN
         /\ buf' = r.buf
         /\ got' = got \o r.ret
         /\ IF r.ret = <<>>
            THEN fgpc' = "wait" /\ fgcall' = fgcall
            ELSE IF fgcall.op = "getstring" /\ r.ret # <<10>>
            THEN fgpc' = "read" /\ fgcall' = [fgcall EXCEPT !.line = @ \o r.ret]
            ELSE fgpc' = "idle" /\ fgcall' = NoCall
    /\ writes' = writes \cup {<<"buf", {"lock"}>>}
    /\ UNCHANGED <<parserVars, running, bgpc, bgchar, reads, queryVars, renderVars, lifeVars,
                   term, others, lastcall>>

GetCharWait ==
    /\ fgpc = "wait"
    /\ fgpc' = "waiting"
    /\ UNCHANGED <<parserVars, running, buf, bgpc, bgchar, fgcall, got, reads,
                   queryVars, renderVars, lifeVars, auxVars>>

\* The mutation of WaitTimeout in which the wait never times out.
WaitForever == FALSE /\ UNCHANGED vars

\* self.cond.wait(1) times out.
WaitTimeout ==
    /\ fgpc = "waiting"
    /\ fgpc' = "read"
    /\ UNCHANGED <<parserVars, running, buf, bgpc, bgchar, fgcall, got, reads,
                   queryVars, renderVars, lifeVars, auxVars>>

\* get_cursor(wait), line 320: self.cursor_pos = None
CallGetCursor ==
    /\ fgpc = "idle"
    /\ dsrs + Len(reports) < MaxQueries
    /\ \E wait \in BOOLEAN :
         fgcall' = [op |-> "get_cursor", wait |-> wait, line |-> <<>>]
    /\ cursor_pos' = <<>>
    /\ fgpc' = "cur_dsr"
    /\ writes' = writes \cup {<<"cursor_pos", {}>>}
    /\ UNCHANGED <<parserVars, running, buf, bgpc, bgchar, got, reads,
                   dsrs, termcursor, reports, ncpr, cursorret, renderVars, lifeVars,
                   term, others, lastcall>>

\* line 321: self.escape(DSR, 6); without wait the call returns.
GetCursorDSR ==
    /\ fgpc = "cur_dsr"
    /\ dsrs' = dsrs + 1
    /\ IF fgcall.wait
       THEN fgpc' = "cur_check" /\ fgcall' = fgcall
       ELSE fgpc' = "idle" /\ fgcall' = NoCall
    /\ UNCHANGED <<parserVars, running, buf, bgpc, bgchar, got, reads,
                   cursor_pos, termcursor, reports, ncpr, cursorret, renderVars, lifeVars,
                   auxVars>>

\* lines 323-326, under self.dsr_cond: wait while cursor_pos is None, then
\* return it.
GetCursorCheck ==
    /\ fgpc = "cur_check"
    /\ IF cursor_pos = <<>>
       THEN fgpc' = "cur_waiting" /\ UNCHANGED <<fgcall, cursorret, auxVars>>
       ELSE fgpc' = "idle" /\ fgcall' = NoCall
            /\ cursorret' = <<cursor_pos, ncpr>>
    /\ UNCHANGED <<parserVars, running, buf, bgpc, bgchar, got, reads,
                   cursor_pos, dsrs, termcursor, reports, ncpr, renderVars, lifeVars,
                   auxVars>>

\* stop(): self.running = False; the notify wakes nobody, the caller being the
\* thread that waits.
Stop ==
    /\ fgpc = "idle"
    /\ CanCall
    /\ running' = FALSE
    /\ AfterCall(FALSE)
    /\ writes' = writes \cup {<<"running", {}>>}
    /\ UNCHANGED <<parserVars, buf, bgpc, bgchar, fgpc, fgcall, got, reads,
                   queryVars, renderVars, termmode, sighandler, mode, sigwinch,
                   term, others, lastcall>>

Loop == LoopTop \/ LoopSend \/ LoopAppend \/ LoopNotify

(***************************************************************************)
(* start() called again.  Every thread it makes runs loop on the same      *)
(* InputWrapper: the same infile, buf, running and self.gen.  bgpc and     *)
(* bgchar are the position and the local of the thread that runs next;     *)
(* others holds those of the remaining threads.  A thread made by start    *)
(* is at "begin", lines 145-146.                                           *)
(***************************************************************************)
\* start(): self.running = True, and a new thread with target self.loop
Start ==
    /\ fgpc = "idle"
    /\ Len(others) < MaxStarts
    /\ running' = TRUE
    /\ others' = Append(others, [pc |-> "begin", char |-> <<>>])
    /\ writes' = writes \cup {<<"running", {}>>}
    /\ UNCHANGED <<parserVars, buf, bgpc, bgchar, fgpc, fgcall, got, reads,
                   queryVars, renderVars, lifeVars, term, lastcall>>

\* self.gen = AnsiEscapeParser(self.callback); self.gen.next()
LoopBegin ==
    /\ bgpc = "begin"
    /\ gen' = NewParser
    /\ bgpc' = "top"
    /\ UNCHANGED <<infile, sent, yielded, calls, raised, running, buf, bgchar,
                   fgpc, fgcall, got, reads, queryVars, renderVars, lifeVars,
                   auxVars>>

\* The scheduler turns to another of the threads that run loop.
Switch ==
    /\ \E i \in 1..Len(others) :
         /\ bgpc' = others[i].pc
         /\ bgchar' = others[i].char
         /\ others' = [others EXCEPT ![i] = [pc |-> bgpc, char |-> bgchar]]
    /\ UNCHANGED <<parserVars, running, buf, fgpc, fgcall, got, reads,
                   queryVars, renderVars, lifeVars, term, lastcall, writes>>

\* The positions of the threads that run loop.
LoopThreads ==
    {<<0, bgpc>>} \cup {<<i, others[i].pc>> : i \in 1..Len(others)}

InitInput ==
    ParserInit /\ InputInit /\ QueryInit /\ RenderInit({<<1, 2>>})
    /\ LifeInit({{}}, {"SIG_DFL"})
    /\ AuxInit({"home"})

NextInput ==
    \/ TypeItem \/ TerminalReply
    \/ Loop
    \/ CallGetChar \/ CallGetString \/ GetCharRead \/ GetCharWait \/ WaitTimeout
    \/ CallGetCursor \/ GetCursorDSR \/ GetCursorCheck

SpecInput == InitInput /\ [][NextInput]_vars

(***************************************************************************)
(* The foreground thread calling read(n) while the loop runs.              *)
(***************************************************************************)
\* The arguments of read: None (n unspecified) and small counts.
ReadArgs == {<<>>, <<0>>, <<1>>, <<2>>}

CallRead ==
    /\ fgpc = "idle"
    /\ Len(reads) < MaxReads
    /\ \E n \in ReadArgs :
         LET r == Read(buf, n) IN
           /\ buf' = r.buf
           /\ reads' = Append(reads, [n |-> n, before |-> buf, ret |-> r.ret,
                                      after |-> r.buf])
    /\ writes' = writes \cup {<<"buf", {"lock"}>>}
    /\ UNCHANGED <<parserVars, running, bgpc, bgchar, fgpc, fgcall, got, queryVars, renderVars, lifeVars,
                   term, others, lastcall>>

NextRead == TypeItem \/ Loop \/ CallRead

SpecRead == InitInput /\ [][NextRead]_vars

(***************************************************************************)
(* Claims about the input reader.                                          *)
(***************************************************************************)
\* C3: the characters getchar has returned (on its own or inside getstring)
\* are a prefix of the plain characters of the stream, in arrival order; with
\* the characters still in buf and the one the loop is about to append they
\* are still such a prefix, so none is lost, repeated or out of order, and no
\* byte of an escape sequence is among them.
BlockingReadOrdering ==
    /\ IsPrefix(got, ExpectedPlain(sent))
    /\ IsPrefix(got \o buf \o bgchar, ExpectedPlain(sent))

\* The stream was A, ESC [ 6 ; 1 0 R, B: getchar has returned A then B and
\* get_cursor(wait=True) has returned (6, 10).
BlockingReadOrderingWitness ==
    /\ sent = <<PlainItem(65), CprItem(<<6, 10>>), PlainItem(66)>>
    /\ got = <<65, 66>>
    /\ cursorret = <<<<6, 10>>, 1>>
    /\ fgpc = "idle"

\* C4: get_cursor(wait=True) waits only while the query is pending (no lost
\* wakeup: the caller is never left in dsr_cond.wait() with cursor_pos set),
\* it waits only after its DSR request was written, and what it returns is the
\* (row, col) of the cursor-position report the handler processed last.
CursorQueryResolution ==
    /\ fgpc = "cur_waiting" => cursor_pos = <<>>
    /\ fgpc \in {"cur_check", "cur_waiting"} => dsrs + Len(reports) > 0
    /\ cursorret # <<>> =>
         /\ cursorret[2] \in 1..Len(reports)
         /\ cursorret[1] = reports[cursorret[2]]

\* get_cursor(wait=True) has returned (6, 10), the report of the terminal, the
\* background thread having read the whole stream.
CursorQueryWitness ==
    /\ cursorret = <<<<6, 10>>, 1>>
    /\ reports = <<<<6, 10>>>>
    /\ cursor_pos = <<6, 10>>
    /\ infile = <<>>
    /\ fgpc = "idle"

\* C5: read(n) returns the first min(n, len(buf)) characters of buf and leaves
\* the others; read() returns all of buf and leaves it empty; so what the
\* calls of read have returned, one after the other, is a prefix of the plain
\* characters of the stream.
RECURSIVE Returned(_)
Returned(rs) == IF rs = <<>> THEN <<>> ELSE Head(rs).ret \o Returned(Tail(rs))

ReadTakes(r) ==
    LET k == IF r.n = <<>> \/ r.n[1] > Len(r.before) THEN Len(r.before) ELSE r.n[1]
    IN /\ r.ret = SubSeq(r.before, 1, k)
       /\ r.after = SubSeq(r.before, k + 1, Len(r.before))

ReadRemovesWhatItReturns ==
    /\ \A i \in 1..Len(reads) : ReadTakes(reads[i])
    /\ IsPrefix(Returned(reads), ExpectedPlain(sent))

\* The same for the calls that give n.
ReadWithCountRemoves ==
    \A i \in 1..Len(reads) : reads[i].n # <<>> => ReadTakes(reads[i])

(***************************************************************************)
(* The program drawing, from a terminal of any of the sizes.               *)
(***************************************************************************)
InitRender ==
    ParserInit /\ InputInit /\ QueryInit /\ RenderInit(TermSizes)
    /\ LifeInit({{}}, {"SIG_DFL"})
    /\ AuxInit({"home", "end"})

NextRender == SetCell \/ FillScreen \/ SetScreen \/ Refresh \/ MoveCursor

SpecRender == InitRender /\ [][NextRender]_vars

(***************************************************************************)
(* Claims about refresh.  They are about the state a refresh leaves:       *)
(* consec >= 1, outfile what that refresh wrote, pass the cells that       *)
(* differed and the cursor when it started.                                *)
(***************************************************************************)
IsGlyph(e) == e.kind = "ch"
IsMove(e) ==
    /\ e.kind = "esc"
    /\ e.code \in {CURSOR_UP, CURSOR_DOWN, CURSOR_RIGHT, CURSOR_LEFT, CURSOR_POS}
IsSgr(e) == e.kind = "esc" /\ e.code = SGR
Count(out, P(_)) == Cardinality({k \in 1..Len(out) : P(out[k])})

\* C6: when refresh returns, curscr equals stdscr in every cell, and the
\* glyphs it wrote are one for each cell in which the two differed when it
\* started and none for any other cell, in row-major order.
RefreshConvergence ==
    consec >= 1 =>
        /\ curscr = stdscr
        /\ LET g == SelectSeq(outfile, IsGlyph) IN
             /\ {g[k].at : k \in 1..Len(g)} = pass.diff
             /\ \A k \in 1..(Len(g) - 1) : g[k].at < g[k + 1].at

\* A refresh has just written every cell of a 2 x 3 window that was filled
\* with 'z', foreground 3.
RefreshConvergenceWitness ==
    /\ consec = 1
    /\ Cardinality(pass.diff) = 6
    /\ stdscr[1].ch = 122
    /\ curscr = stdscr
    /\ Len(SelectSeq(outfile, IsGlyph)) = 6

\* C7: a refresh that follows a refresh, nothing called in between, writes
\* nothing: no glyph, no cursor movement, no SGR.
DiffIdempotence == consec = 2 => outfile = <<>>

\* The second of two refreshes in a row has returned, the first having had
\* cells to write, among them a cell with a colour.
DiffIdempotenceWitness ==
    /\ consec = 2
    /\ \E i \in 1..(rows * cols) : stdscr[i].fg = 3 /\ stdscr[i].ch = 122
    /\ \E i \in 1..(rows * cols) : stdscr[i].ch = 120
    /\ outfile = <<>>

\* C8: before each glyph refresh writes at most one cursor movement and at
\* most one SGR, the movement first; it writes nothing after its last glyph;
\* so for one differing cell it writes at most one movement, at most one SGR
\* and exactly one glyph.
DiffMinimality ==
    consec >= 1 =>
        /\ \A k \in 1..Len(outfile) :
             /\ IsMove(outfile[k]) =>
                  k < Len(outfile) /\ (IsSgr(outfile[k + 1]) \/ IsGlyph(outfile[k + 1]))
             /\ IsSgr(outfile[k]) => k < Len(outfile) /\ IsGlyph(outfile[k + 1])
        /\ Count(outfile, IsGlyph) = Cardinality(pass.diff)
        /\ Cardinality(pass.diff) = 1 =>
             /\ Count(outfile, IsMove) <= 1
             /\ Count(outfile, IsSgr) <= 1
             /\ Count(outfile, IsGlyph) = 1

\* One cell differed, not under the cursor and of another style than shown:
\* the refresh wrote a movement, an SGR and the glyph.
DiffMinimalityWitness ==
    /\ consec = 1
    /\ Cardinality(pass.diff) = 1
    /\ Len(outfile) = 3
    /\ IsMove(outfile[1]) /\ IsSgr(outfile[2]) /\ IsGlyph(outfile[3])

\* C9: when exactly two cells differ, (r, c) and (r, c+1) of one row, and the
\* tracked cursor is not at the first, refresh writes exactly one cursor
\* movement, before the first glyph, and none before the second - whatever
\* the column c, the last but one included.
TwoAdjacent(i) ==
    /\ pass.diff = {i, i + 1}
    /\ (i - 1) \div cols = i \div cols
    /\ pass.pos # <<((i - 1) \div cols) + 1, ((i - 1) % cols) + 1>>

CursorWrapPrediction ==
    \A i \in 1..(rows * cols) :
        consec >= 1 /\ TwoAdjacent(i) =>
            /\ Count(outfile, IsMove) = 1
            /\ IsMove(outfile[1])

\* The same, for a second cell that is not in the last column.
CursorWrapPredictionInside ==
    \A i \in 1..(rows * cols) :
        consec >= 1 /\ TwoAdjacent(i) /\ (i % cols) + 1 < cols =>
            /\ Count(outfile, IsMove) = 1
            /\ IsMove(outfile[1])

(***************************************************************************)
(* The program entering and leaving the with block of a Terminal.          *)
(***************************************************************************)
InitLife ==
    ParserInit /\ InputInit /\ QueryInit /\ RenderInit({<<1, 2>>})
    /\ LifeInit(StartModes, StartHandlers)
    /\ AuxInit({"home"})

NextLife == Enter \/ SetRaw \/ SetCbreak \/ Stop \/ BodyRaises \/ Exit \/ Resize

SpecLife == InitLife /\ [][NextLife]_vars

\* What C10 promises of a block that has been left.
LifecycleRestored ==
    /\ termmode = entered.mode
    /\ sighandler = entered.sig
    /\ running = FALSE

\* C10: when __exit__ is over - the block having ended or an exception having
\* left it, whatever setraw and setcbreak did inside - the terminal's mode is
\* the one __enter__ saw, the disposition of SIGWINCH is the one __enter__
\* saw, and running is false.
ScopedLifecycle == scope = "exited" => LifecycleRestored

\* C10, as far as the code keeps it: the same of an __exit__ that no SIGWINCH
\* interrupted.
ScopedLifecycleUninterrupted ==
    (scope = "exited" /\ ~entered.interrupted) => LifecycleRestored

\* An exception left a block that was entered in cooked mode, with SIGWINCH
\* ignored, and in which setraw changed the mode: __exit__ has returned.
ScopedLifecycleUninterruptedWitness ==
    /\ scope = "exited"
    /\ ~entered.interrupted
    /\ entered.by = "error"
    /\ entered.changed
    /\ entered.mode = {}
    /\ entered.sig = "SIG_IGN"
    /\ termmode = {}

(***************************************************************************)
(* Claims about the buffer swap, the cursor and the is-set bits.           *)
(***************************************************************************)
\* C11: set_screen of a window whose size is not that of the shown window
\* raises (AssertionError) and leaves stdscr, curscr and cursor_pos as they
\* were; of a window of that size it raises nothing, the window is stdscr and
\* curscr is as it was; and the cell write or the refresh that follows acts on
\* that window: the write changes one cell of it, the refresh shows all of it.
BufferSwap ==
    /\ [][(lastcall'.op = "set_screen" /\ nops' = nops + 1) =>
            LET sz == lastcall'.args[1]
                v == lastcall'.args[2]
            IN IF sz # <<rows, cols>>
               THEN /\ lastcall'.exc = <<"AssertionError">>
                    /\ stdscr' = stdscr
                    /\ curscr' = curscr
                    /\ cursor_pos' = cursor_pos
               ELSE /\ lastcall'.exc = <<>>
                    /\ stdscr' = [i \in 1..(rows * cols) |-> v]
                    /\ curscr' = curscr]_vars
    /\ [][(lastcall.op = "set_screen" /\ lastcall.exc = <<>>) =>
            LET v == lastcall.args[2] IN
              /\ lastcall'.op = "setitem" =>
                   \A i \in 1..(rows * cols) :
                     stdscr'[i] = IF i = lastcall'.args[1]
                                  THEN SetItemCell(lastcall'.args[2]) ELSE v
              /\ lastcall'.op = "refresh" =>
                   \A i \in 1..(rows * cols) :
                     /\ curscr'[i].ch = v.ch
                     /\ curscr'[i].fg = v.fg
                     /\ curscr'[i].bg = v.bg]_vars

\* On a 2 x 2 terminal a cell was written, then set_screen was called with a
\* window of 2 x 3 and raised; the pending window still has the cell.
BufferSwapWitness ==
    /\ rows = 2 /\ cols = 2
    /\ lastcall.op = "set_screen"
    /\ lastcall.args[1] = <<2, 3>>
    /\ lastcall.exc = <<"AssertionError">>
    /\ stdscr # curscr
    /\ Len(stdscr) = 4

\* The row and the column (from 1) of the cell of index i.
CellPlace(i) == <<((i - 1) \div cols) + 1, ((i - 1) % cols) + 1>>

\* In the pass refresh has just made, every glyph was written with the
\* terminal's cursor on the glyph's cell.
GlyphsLand ==
    (consec >= 1 /\ lastcall.exc = <<>>) =>
        \A k \in 1..Len(outfile) :
          outfile[k].kind = "ch" =>
            TermRun(pass.term, SubSeq(outfile, 1, k - 1), rows, cols).cursor
              = CellPlace(outfile[k].at)

\* After a refresh or a move_cursor that wrote something, the tracked column
\* is one of the screen's.
TrackedInScreen ==
    (lastcall.op \in {"refresh", "move_cursor"} /\ outfile # <<>>) =>
        cursor_pos[2] \in 1..cols

\* C13: every glyph refresh writes is written with the terminal's cursor on
\* the cell the glyph is for, which is where the tracked cursor is then; and
\* the tracked column stays within 1..cols.
TrackedCursorMatches == GlyphsLand /\ TrackedInScreen

Abs(n) == IF n < 0 THEN -n ELSE n

\* C14: move_cursor(row, col) writes one CSI row;col H when the clamped target
\* differs from the tracked position in row and in column, one CSI n B/A/C/D
\* with n the distance when it differs in one of them, nothing when in none;
\* and the tracked position is then the clamped target.
MovementPolicy ==
    [][(lastcall'.op = "move_cursor" /\ nops' = nops + 1) =>
         LET row == IF lastcall'.args[1] < 1 THEN 1
                    ELSE IF lastcall'.args[1] > rows THEN rows
                    ELSE lastcall'.args[1]
             col == IF lastcall'.args[2] < 1 THEN 1
                    ELSE IF lastcall'.args[2] > cols THEN cols
                    ELSE lastcall'.args[2]
             dr == row - cursor_pos[1]
             dc == col - cursor_pos[2]
         IN /\ cursor_pos' = <<row, col>>
            /\ (dr # 0 /\ dc # 0) =>
                 outfile' = <<Escape(CURSOR_POS, <<row, col>>)>>
            /\ (dr # 0 /\ dc = 0) =>
                 outfile' = <<Escape(IF dr > 0 THEN CURSOR_DOWN ELSE CURSOR_UP,
                                     <<Abs(dr)>>)>>
            /\ (dr = 0 /\ dc # 0) =>
                 outfile' = <<Escape(IF dc > 0 THEN CURSOR_RIGHT ELSE CURSOR_LEFT,
                                     <<Abs(dc)>>)>>
            /\ (dr = 0 /\ dc = 0) => outfile' = <<>>]_vars

\* On a 2 x 2 terminal with the cursor tracked in row 1, move_cursor(3, 1) was
\* called: the target was clamped to row 2 and CSI 1 B written.
MovementPolicyWitness ==
    /\ rows = 2 /\ cols = 2
    /\ lastcall.op = "move_cursor"
    /\ lastcall.args = <<3, 1>>
    /\ outfile = <<Escape(CURSOR_DOWN, <<1>>)>>
    /\ cursor_pos = <<2, 1>>

\* C15: every cell of the pending and of the shown window whose foreground is
\* not 0 has the fg-is-set bit on, and every cell whose background is not 0
\* the bg-is-set bit.
DerivedIsSetBits ==
    \A i \in 1..(rows * cols) :
      \A cell \in {stdscr[i], curscr[i]} :
        /\ cell.fg # 0 => has_attr(cell, FG_OFFSET)
        /\ cell.bg # 0 => has_attr(cell, BG_OFFSET)

\* C15, as far as the code keeps it: the same of the shown window, whose cells
\* are all stored by Window.__setitem__.
DerivedIsSetBitsShown ==
    \A i \in 1..(rows * cols) :
        /\ curscr[i].fg # 0 => has_attr(curscr[i], FG_OFFSET)
        /\ curscr[i].bg # 0 => has_attr(curscr[i], BG_OFFSET)

(***************************************************************************)
(* The program calling start() and stop(), and get_cursor, while the loop  *)
(* runs.                                                                   *)
(***************************************************************************)
NextThreads ==
    \/ TypeItem \/ TerminalReply
    \/ Loop \/ LoopBegin \/ Switch
    \/ Start \/ Stop
    \/ CallGetCursor \/ GetCursorDSR \/ GetCursorCheck

SpecThreads == InitInput /\ [][NextThreads]_vars

(***************************************************************************)
(* The program calling getchar while the loop runs, every thread running   *)
(* again and again and the timed wait running out.                         *)
(***************************************************************************)
NextWake ==
    \/ TypeItem
    \/ Loop
    \/ CallGetChar \/ GetCharRead \/ GetCharWait \/ WaitTimeout

SpecWake ==
    /\ InitInput
    /\ [][NextWake]_vars
    /\ WF_vars(Loop)
    /\ WF_vars(GetCharRead)
    /\ WF_vars(GetCharWait)
    /\ WF_vars(WaitTimeout)

(***************************************************************************)
(* The program drawing and asking for the cursor's position, the terminal  *)
(* answering and the loop reading the answers.                             *)
(***************************************************************************)
InitCursor ==
    ParserInit /\ InputInit /\ QueryInit /\ RenderInit({<<1, 2>>, <<2, 2>>})
    /\ LifeInit({{}}, {"SIG_DFL"})
    /\ AuxInit({"home"})

NextCursor ==
    \/ CallGetCursor \/ GetCursorDSR \/ GetCursorCheck
    \/ TerminalReply
    \/ LoopTop \/ LoopSend
    \/ SetCell \/ Refresh \/ MoveCursor

SpecCursor == InitCursor /\ [][NextCursor]_vars

(***************************************************************************)
(* Claims about the cursor-position report, the locks and the threads.     *)
(***************************************************************************)
\* C12: when the parser completes ESC [ R, a cursor-position report without
\* parameters, cursor_pos becomes (1, 1), a thread waiting in get_cursor is
\* woken and the loop goes on.
CprDefaults ==
    [][(/\ Len(calls') = Len(calls) + 1
        /\ calls'[Len(calls')] = <<<<>>, <<CPR>>>>)
       => (/\ cursor_pos' = <<1, 1>>
           /\ bgpc' \in {"reread", "select", "top"}
           /\ fgpc = "cur_waiting" => fgpc' = "cur_check")]_vars

\* C12, as far as the code keeps it: a report with its two parameters sets
\* cursor_pos to them, wakes the waiting thread and the loop goes on.
CprWithParameters ==
    [][(/\ Len(calls') = Len(calls) + 1
        /\ calls'[Len(calls')] = <<<<54, 59, 49, 48>>, <<CPR>>>>)
       => (/\ cursor_pos' = <<6, 10>>
           /\ bgpc' \in {"reread", "select", "top"}
           /\ fgpc = "cur_waiting" => fgpc' = "cur_check")]_vars

\* C16: every write of buf and of running so far was made by a thread holding
\* self.lock, and every write of cursor_pos that sets the query pending or
\* resolves it by a thread holding self.dsr_cond.
LockDiscipline ==
    \A w \in writes :
        /\ w[1] \in {"buf", "running"} => "lock" \in w[2]
        /\ w[1] = "cursor_pos" => "dsr_cond" \in w[2]

\* C16, as far as the code keeps it: buf is written under self.lock only, and
\* never under self.dsr_cond.
LockDisciplineBuf ==
    \A w \in writes : w[1] = "buf" => w[2] = {"lock"}

\* C17: at most one thread is inside the read loop, past the test of
\* self.running and not yet done.
SingleReaderTask ==
    Cardinality({t \in LoopThreads :
                   t[2] \in {"select", "reread", "append", "notify"}}) <= 1

\* C19: a getchar that is being made while buf holds a character returns.
NoLostWakeup ==
    (fgcall.op = "getchar" /\ buf # <<>>) ~> (fgpc = "idle" /\ got # <<>>)

\* The wakeup is lost: getchar has read nothing and is about to wait, and the
\* loop has since appended a character and notified.
NoLostWakeupWitness ==
    /\ fgcall.op = "getchar"
    /\ fgpc = "wait"
    /\ buf # <<>>
    /\ bgpc = "top"

\* C20: no refresh() and no move_cursor() finds None where the tracked
\* cursor is to be: none raises TypeError.
CursorAlwaysUsable ==
    lastcall.op \in {"refresh", "move_cursor"} => lastcall.exc = <<>>

(***************************************************************************)
(* Claims about the style of what is written.                              *)
(***************************************************************************)
\* The rendition a cell is to be shown in.
WantedStyle(cell) ==
    [attrs |-> {a \in {BOLD, FAINT, ITALIC, UNDERLINE, BLINK_SLOW, BLINK_FAST,
                       REVERSE_VIDEO, CONCEAL, STRIKE_OUT, FRAKTUR} :
                  has_attr(cell, a)},
     fg |-> IF cell.fg = 0 THEN <<>> ELSE <<cell.fg>>,
     bg |-> IF cell.bg = 0 THEN <<>> ELSE <<cell.bg>>]

\* C18: in the pass refresh has just made, every glyph was written with the
\* terminal's rendition - its attributes, foreground and background, as the
\* SGR sequences written so far leave them - that of the pending cell the
\* glyph is for.
StyleSynchronised ==
    (consec >= 1 /\ lastcall.exc = <<>>) =>
        \A k \in 1..Len(outfile) :
          outfile[k].kind = "ch" =>
            TermRun(pass.term, SubSeq(outfile, 1, k - 1), rows, cols).style
              = WantedStyle(stdscr[outfile[k].at])

=============================================================================
